---- MODULE Spec2Model ----
(***************************************************************************)
(* wgsl-imports: compile() resolves the import graph of an entry module,   *)
(* Module::mangle rewrites every use of an imported identifier to the      *)
(* mangled name "{item}_{hash}", and the assembler flattens the graph.     *)
(*                                                                         *)
(* Syntax trees are records.  An Option is a sequence of length 0 or 1, a  *)
(* Vec is a sequence, a Box is the value itself.  Every visitor of         *)
(* mangle.rs yields mutable references that its only caller hands to       *)
(* expr_replace; the operator modelling a visitor therefore returns the    *)
(* tree in which expr_replace has been applied to exactly the expressions  *)
(* the visitor yields, and to no other.                                    *)
(***************************************************************************)
EXTENDS Integers, Sequences, FiniteSets, TLC

VARIABLES
    pc,        \* position of compile(): "resolve", "try", "assemble", "done"
    hash,      \* DefaultHasher as a function of (resource, item)
    parsed,    \* resource -> Module as parsed (kept as read; dropped on Err)
    modules,   \* resource -> Module {source, imports}, mutated by Module::mangle
    mangled,   \* the resources whose module Module::mangle has rewritten
    renames,   \* the replace_imported_ident calls made so far (a log)
    resolved,  \* outcome of Module::resolve: "pending", "Ok" or an ImportError kind
    assembled, \* number of calls of Module::assemble
    output,    \* the TranslationUnit built by assemble, with its provenance
    result     \* what compile() returned: [ok: Option<unit>, err: Option<error>]

vars == <<pc, hash, parsed, modules, mangled, renames, resolved, assembled, output, result>>

----------------------------------------------------------------------------
(* Bounds of the model *)

\* Hash values are drawn from 0..MaxHash: a finite range, so that, as for the
\* 64-bit DefaultHasher, distinct inputs may or may not collide.
MaxHash == 1

\* Nesting depth of the expression trees drawn as inputs.
MaxExprDepth == 2

\* Nesting depth of the statement trees drawn as inputs.
MaxStmtDepth == 2

----------------------------------------------------------------------------
(* wgsl_parse::syntax as far as mangle.rs reads it *)

None == <<>>
Some(x) == <<x>>

TypeExpression(n) == [name |-> n]

Literal == [kind |-> "Literal"]
Type(n) == [kind |-> "Type", name |-> n]
Parenthesized(e) == [kind |-> "Parenthesized", expression |-> e]
NamedComponent(b) == [kind |-> "NamedComponent", base |-> b]
Indexing(b, i) == [kind |-> "Indexing", base |-> b, index |-> i]
Unary(o) == [kind |-> "Unary", operand |-> o]
Binary(l, r) == [kind |-> "Binary", left |-> l, right |-> r]
FunctionCall(n, args) == [kind |-> "FunctionCall", name |-> n, arguments |-> args]

CompoundStatement(stats) == [statements |-> stats]

Compound(stats) == [kind |-> "Compound", statements |-> stats]
Assignment(l, r) == [kind |-> "Assignment", lhs |-> l, rhs |-> r]
Increment(e) == [kind |-> "Increment", expression |-> e]
Decrement(e) == [kind |-> "Decrement", expression |-> e]
If(cond, body, else_ifs, else_opt) ==
    [kind |-> "If", if_clause |-> <<cond, body>>,
     else_if_clauses |-> else_ifs, else_clause |-> else_opt]
CaseDefault == [kind |-> "Default"]
CaseExpression(e) == [kind |-> "Expression", expression |-> e]
SwitchClause(selectors, body) == [case_selectors |-> selectors, body |-> body]
Switch(e, clauses) == [kind |-> "Switch", expression |-> e, clauses |-> clauses]
Continuing(body, break_if) == [body |-> body, break_if |-> break_if]
Loop(body, cont) == [kind |-> "Loop", body |-> body, continuing |-> cont]
For(init, cond, upd, body) ==
    [kind |-> "For", initializer |-> init, condition |-> cond,
     update |-> upd, body |-> body]
While(cond, body) == [kind |-> "While", condition |-> cond, body |-> body]
Return(e_opt) == [kind |-> "Return", expression |-> e_opt]
FunctionCallStatement(n, args) ==
    [kind |-> "FunctionCall", name |-> n, arguments |-> args]
ConstAssert(e) == [kind |-> "ConstAssert", expression |-> e]
Declaration(n, typ_opt, init_opt) ==
    [kind |-> "Declaration", name |-> n, typ |-> typ_opt, initializer |-> init_opt]
Break == [kind |-> "Break"]

TypeAlias(n, t) == [kind |-> "TypeAlias", name |-> n, typ |-> t]
StructMember(n, t) == [name |-> n, typ |-> t]
Struct(n, members) == [kind |-> "Struct", name |-> n, members |-> members]
FormalParameter(n, t) == [name |-> n, typ |-> t]
Function(n, params, ret_opt, body) ==
    [kind |-> "Function", name |-> n, parameters |-> params,
     return_type |-> ret_opt, body |-> body]
TranslationUnit(decls) == [global_declarations |-> decls]

ImportItem(n, rename_opt) == [name |-> n, rename |-> rename_opt]

----------------------------------------------------------------------------
(* mangle.rs: the rewrite engine *)

RECURSIVE expr_visit_exprs(_, _, _)
RECURSIVE expr_replace(_, _, _)

\* The name comparison made at a callee or a type expression.
replace_name(name, old_ident, new_ident) ==
    IF name = old_ident THEN new_ident ELSE name

\* expr_visit_exprs(expr).for_each(expr_replace): the visitor yields the inner
\* expression of a parenthesized expression and otherwise only descends; a
\* variant it does not list yields nothing.
expr_visit_exprs(expr, old_ident, new_ident) ==
    CASE expr.kind = "Parenthesized" ->
           [expr EXCEPT !.expression = expr_replace(expr.expression, old_ident, new_ident)]
      [] expr.kind = "NamedComponent" ->
           [expr EXCEPT !.base = expr_visit_exprs(expr.base, old_ident, new_ident)]
      [] expr.kind = "Indexing" ->
           [expr EXCEPT !.base = expr_visit_exprs(expr.base, old_ident, new_ident),
                        !.index = expr_visit_exprs(expr.index, old_ident, new_ident)]
      [] expr.kind = "Unary" ->
           [expr EXCEPT !.operand = expr_visit_exprs(expr.operand, old_ident, new_ident)]
      [] expr.kind = "Binary" ->
           [expr EXCEPT !.left = expr_visit_exprs(expr.left, old_ident, new_ident),
                        !.right = expr_visit_exprs(expr.right, old_ident, new_ident)]
      [] expr.kind = "FunctionCall" ->
           [expr EXCEPT !.arguments =
                [i \in DOMAIN expr.arguments |->
                    expr_visit_exprs(expr.arguments[i], old_ident, new_ident)]]
      [] OTHER -> expr

expr_replace(expr, old_ident, new_ident) ==
    CASE expr.kind = "Parenthesized" ->
           [expr EXCEPT !.expression = expr_visit_exprs(expr.expression, old_ident, new_ident)]
      [] expr.kind = "NamedComponent" ->
           [expr EXCEPT !.base = expr_visit_exprs(expr.base, old_ident, new_ident)]
      [] expr.kind = "Indexing" ->
           [expr EXCEPT !.base = expr_visit_exprs(expr.base, old_ident, new_ident),
                        !.index = expr_visit_exprs(expr.index, old_ident, new_ident)]
      [] expr.kind = "Unary" ->
           [expr EXCEPT !.operand = expr_visit_exprs(expr.operand, old_ident, new_ident)]
      [] expr.kind = "Binary" ->
           [expr EXCEPT !.left = expr_visit_exprs(expr.left, old_ident, new_ident),
                        !.right = expr_visit_exprs(expr.right, old_ident, new_ident)]
      [] expr.kind = "FunctionCall" ->
           [expr EXCEPT !.name = replace_name(expr.name, old_ident, new_ident),
                        !.arguments =
                [i \in DOMAIN expr.arguments |->
                    expr_visit_exprs(expr.arguments[i], old_ident, new_ident)]]
      [] expr.kind = "Type" ->
           [expr EXCEPT !.name = replace_name(expr.name, old_ident, new_ident)]
      [] OTHER -> expr

\* A faulty variant of each_expr_replace: the optional and repeated expression
\* positions (a for condition, a break-if, a return value, an initializer,
\* call arguments) yield nothing.
each_expr_replace_skip(exprs, old_ident, new_ident) == exprs

\* `.some()` / `.each()` over expressions the caller hands to expr_replace.
each_expr_replace(exprs, old_ident, new_ident) ==
    [i \in DOMAIN exprs |-> expr_replace(exprs[i], old_ident, new_ident)]

RECURSIVE stat_visit_exprs(_, _, _)
RECURSIVE each_stat_visit_exprs(_, _, _)

\* `statements.visit_mut().each().flat_map(stat_visit_exprs)`
each_stat_visit_exprs(stats, old_ident, new_ident) ==
    [i \in DOMAIN stats |-> stat_visit_exprs(stats[i], old_ident, new_ident)]

\* stat_visit_exprs feeding the loop `for expr in ... { expr_replace(expr) }`.
\* A function-call statement yields its arguments only; a local declaration
\* yields its initializer only.
stat_visit_exprs(stat, old_ident, new_ident) ==
    LET E(e) == expr_replace(e, old_ident, new_ident)
        Es(es) == each_expr_replace(es, old_ident, new_ident)
        B(body) == [body EXCEPT !.statements =
                        each_stat_visit_exprs(body.statements, old_ident, new_ident)]
    IN
    CASE stat.kind = "Compound" ->
           [stat EXCEPT !.statements =
                each_stat_visit_exprs(stat.statements, old_ident, new_ident)]
      [] stat.kind = "Assignment" ->
           [stat EXCEPT !.lhs = E(stat.lhs), !.rhs = E(stat.rhs)]
      [] stat.kind = "Increment" ->
           [stat EXCEPT !.expression = E(stat.expression)]
      [] stat.kind = "Decrement" ->
           [stat EXCEPT !.expression = E(stat.expression)]
      [] stat.kind = "If" ->
           [stat EXCEPT
              !.if_clause = <<E(stat.if_clause[1]), B(stat.if_clause[2])>>,
              !.else_if_clauses =
                 [i \in DOMAIN stat.else_if_clauses |->
                    <<E(stat.else_if_clauses[i][1]), B(stat.else_if_clauses[i][2])>>],
              !.else_clause =
                 [i \in DOMAIN stat.else_clause |-> B(stat.else_clause[i])]]
      [] stat.kind = "Switch" ->
           [stat EXCEPT
              !.expression = E(stat.expression),
              !.clauses =
                 [i \in DOMAIN stat.clauses |->
                    [case_selectors |->
                        [j \in DOMAIN stat.clauses[i].case_selectors |->
                            LET sel == stat.clauses[i].case_selectors[j] IN
                            IF sel.kind = "Expression"
                            THEN [sel EXCEPT !.expression = E(sel.expression)]
                            ELSE sel],
                     body |-> B(stat.clauses[i].body)]]]
      [] stat.kind = "Loop" ->
           [stat EXCEPT
              !.body = B(stat.body),
              !.continuing =
                 [i \in DOMAIN stat.continuing |->
                    [body |-> B(stat.continuing[i].body),
                     break_if |-> Es(stat.continuing[i].break_if)]]]
      [] stat.kind = "For" ->
           [stat EXCEPT
              !.initializer =
                 each_stat_visit_exprs(stat.initializer, old_ident, new_ident),
              !.condition = Es(stat.condition),
              !.update = each_stat_visit_exprs(stat.update, old_ident, new_ident),
              !.body = B(stat.body)]
      [] stat.kind = "While" ->
           [stat EXCEPT !.condition = E(stat.condition), !.body = B(stat.body)]
      [] stat.kind = "Return" ->
           [stat EXCEPT !.expression = Es(stat.expression)]
      [] stat.kind = "FunctionCall" ->
           [stat EXCEPT !.arguments = Es(stat.arguments)]
      [] stat.kind = "ConstAssert" ->
           [stat EXCEPT !.expression = E(stat.expression)]
      [] stat.kind = "Declaration" ->
           [stat EXCEPT !.initializer = Es(stat.initializer)]
      [] OTHER -> stat

\* mod_visit_exprs feeding expr_replace: initializers of global value
\* declarations and the statements of function bodies.
mod_visit_exprs(module, old_ident, new_ident) ==
    [module EXCEPT !.global_declarations =
        [i \in DOMAIN module.global_declarations |->
            LET x == module.global_declarations[i] IN
            CASE x.kind = "Declaration" ->
                   [x EXCEPT !.initializer =
                        each_expr_replace(x.initializer, old_ident, new_ident)]
              [] x.kind = "Function" ->
                   [x EXCEPT !.body.statements =
                        each_stat_visit_exprs(x.body.statements, old_ident, new_ident)]
              [] OTHER -> x]]

\* mod_visit_type_exprs feeding the loop that compares type_expr.name: the
\* declared types of global declarations only.
mod_visit_type_exprs(module, old_ident, new_ident) ==
    LET T(t) == [t EXCEPT !.name = replace_name(t.name, old_ident, new_ident)]
        Ts(ts) == [i \in DOMAIN ts |-> T(ts[i])]
    IN
    [module EXCEPT !.global_declarations =
        [i \in DOMAIN module.global_declarations |->
            LET x == module.global_declarations[i] IN
            CASE x.kind = "Declaration" -> [x EXCEPT !.typ = Ts(x.typ)]
              [] x.kind = "TypeAlias" -> [x EXCEPT !.typ = T(x.typ)]
              [] x.kind = "Struct" ->
                   [x EXCEPT !.members =
                        [j \in DOMAIN x.members |->
                            [x.members[j] EXCEPT !.typ = T(x.members[j].typ)]]]
              [] x.kind = "Function" ->
                   [x EXCEPT !.parameters =
                        [j \in DOMAIN x.parameters |->
                            [x.parameters[j] EXCEPT !.typ = T(x.parameters[j].typ)]],
                             !.return_type = Ts(x.return_type)]
              [] OTHER -> x]]

replace_imported_ident(module, old_ident, new_ident) ==
    mod_visit_exprs(mod_visit_type_exprs(module, old_ident, new_ident),
                    old_ident, new_ident)

\* DefaultHasher over (resource, item).  `hash` holds the values for the pairs
\* the program hashes; the hasher is total, and a pair outside them hashes to 0.
DefaultHasher(resource, item) ==
    IF <<resource, item>> \in DOMAIN hash THEN hash[<<resource, item>>] ELSE 0

\* FileManglerHash::mangle: format!("{item}_{hash}"), the hash in decimal.
mangle(resource, item) == item \o "_" \o ToString(DefaultHasher(resource, item))

Module(source, imports) == [source |-> source, imports |-> imports]

\* The iteration `for (resource, items) in &self.imports { for item in items`:
\* the (resource, item) pairs in the order the two loops reach them.
RECURSIVE import_items(_)
import_items(imports) ==
    IF imports = <<>> THEN <<>>
    ELSE [j \in DOMAIN Head(imports)[2] |->
             [resource |-> Head(imports)[1], item |-> Head(imports)[2][j]]]
         \o import_items(Tail(imports))

\* A faulty variant of rename_of: the mangler is given the local alias instead
\* of the exported name.
rename_of_alias(pair) ==
    LET old == IF pair.item.rename # None THEN pair.item.rename[1] ELSE pair.item.name IN
    [old_ident |-> old, new_ident |-> mangle(pair.resource, old)]

\* The two identifiers of one loop iteration of Module::mangle.
rename_of(pair) ==
    [old_ident |-> IF pair.item.rename # None THEN pair.item.rename[1]
                   ELSE pair.item.name,
     new_ident |-> mangle(pair.resource, pair.item.name)]

\* The loop body of Module::mangle applied to the pairs in order, each
\* iteration rewriting the source the previous one left.
RECURSIVE mangle_loop(_, _)
mangle_loop(source, pairs) ==
    IF pairs = <<>> THEN source
    ELSE LET r == rename_of(Head(pairs)) IN
         mangle_loop(replace_imported_ident(source, r.old_ident, r.new_ident),
                     Tail(pairs))

Module_mangle(module) ==
    [module EXCEPT !.source = mangle_loop(module.source, import_items(module.imports))]

----------------------------------------------------------------------------
(* The parts of the crate that lib.rs calls: Module::resolve and            *)
(* Module::assemble                                                        *)

Entry == "main"

Range(s) == {s[i] : i \in DOMAIN s}

DeclNames(unit) == {unit.global_declarations[i].name : i \in DOMAIN unit.global_declarations}

Targets(module) == {module.imports[i][1] : i \in DOMAIN module.imports}

\* Resources reachable from r through at least one import, following at most
\* n further edges.
RECURSIVE Reach(_, _, _)
Reach(graph, r, n) ==
    LET direct == Targets(graph[r]) \cap DOMAIN graph IN
    IF n = 0 THEN direct
    ELSE direct \cup UNION {Reach(graph, d, n - 1) : d \in direct}

CyclicImport(graph) ==
    \E r \in DOMAIN graph : r \in Reach(graph, r, Cardinality(DOMAIN graph))

ResourceNotFound(graph) ==
    \E r \in DOMAIN graph : \E t \in Targets(graph[r]) : t \notin DOMAIN graph

UnresolvedImport(graph) ==
    \E r \in DOMAIN graph :
        \E p \in Range(import_items(graph[r].imports)) :
            /\ p.resource \in DOMAIN graph
            /\ p.item.name \notin DeclNames(graph[p.resource].source)

\* The errors Module::resolve can end with on this graph.  Reading or parsing
\* a resource can fail whatever the graph looks like.
ImportErrors(graph) ==
    {"ResourceNotFound", "ParseError"}
    \cup (IF CyclicImport(graph) THEN {"CyclicImport"} ELSE {})
    \cup (IF UnresolvedImport(graph) THEN {"UnresolvedImport"} ELSE {})

GraphOk(graph) ==
    ~CyclicImport(graph) /\ ~ResourceNotFound(graph) /\ ~UnresolvedImport(graph)

\* Dependency order: every module after the modules it imports, each once.
RECURSIVE DependencyOrder(_, _, _)
RECURSIVE DependencyOrderAll(_, _, _)
DependencyOrder(graph, r, acc) ==
    IF r \in Range(acc) THEN acc
    ELSE Append(DependencyOrderAll(graph,
                    [i \in DOMAIN graph[r].imports |-> graph[r].imports[i][1]], acc), r)
DependencyOrderAll(graph, rs, acc) ==
    IF rs = <<>> THEN acc
    ELSE DependencyOrderAll(graph, Tail(rs), DependencyOrder(graph, Head(rs), acc))

\* The declarations one module contributes: a non-entry module's top-level
\* declarations are renamed to mangle(its own resource, the declared name).
AssembledDecls(graph, r) ==
    [i \in DOMAIN graph[r].source.global_declarations |->
        LET d == graph[r].source.global_declarations[i] IN
        [decl |-> IF r = Entry THEN d ELSE [d EXCEPT !.name = mangle(r, d.name)],
         resource |-> r, name |-> d.name]]

RECURSIVE AssembleAll(_, _)
AssembleAll(graph, order) ==
    IF order = <<>> THEN <<>>
    ELSE AssembledDecls(graph, Head(order)) \o AssembleAll(graph, Tail(order))

\* Module::assemble on the root module.  `unit` is the flattened
\* TranslationUnit; `origin` records, for each of its declarations, the module
\* and the declared name it comes from.
assemble(graph) ==
    LET all == AssembleAll(graph, DependencyOrder(graph, Entry, <<>>)) IN
    [unit |-> TranslationUnit([i \in DOMAIN all |-> all[i].decl]),
     origin |-> [i \in DOMAIN all |-> [resource |-> all[i].resource, name |-> all[i].name]]]

----------------------------------------------------------------------------
(* compile() as a state machine *)

NoModules == [r \in {} |-> Module(TranslationUnit(<<>>), <<>>)]

NoResult == [ok |-> None, err |-> None]

\* Module::resolve mangles one more module of the graph it has built.
ResolveMangle(r) ==
    /\ pc = "resolve"
    /\ GraphOk(modules)
    /\ r \in DOMAIN modules
    /\ r \notin mangled
    /\ modules' = [modules EXCEPT ![r] = Module_mangle(modules[r])]
    /\ mangled' = mangled \cup {r}
    /\ renames' = renames \cup
          {[module |-> r, resource |-> p.resource, name |-> p.item.name,
            old_ident |-> rename_of(p).old_ident, new_ident |-> rename_of(p).new_ident] :
              p \in Range(import_items(modules[r].imports))}
    /\ UNCHANGED <<pc, hash, parsed, resolved, assembled, output, result>>

\* Module::resolve returns Ok(root module).
ResolveOk ==
    /\ pc = "resolve"
    /\ GraphOk(modules)
    /\ mangled = DOMAIN modules
    /\ resolved' = "Ok"
    /\ pc' = "try"
    /\ UNCHANGED <<hash, parsed, modules, mangled, renames, assembled, output, result>>

\* Module::resolve returns Err(e): no module graph is handed back.
ResolveErr(e) ==
    /\ pc = "resolve"
    /\ e \in ImportErrors(parsed)
    /\ resolved' = e
    /\ pc' = "try"
    /\ modules' = NoModules
    /\ parsed' = NoModules
    /\ mangled' = {}
    /\ renames' = {}
    /\ UNCHANGED <<hash, assembled, output, result>>

\* A faulty variant of compile_try: a failed resolution is replaced by an
\* empty unit (unwrap_or_default in place of `?`).
compile_try_default ==
    /\ pc = "try"
    /\ IF resolved = "Ok"
       THEN /\ pc' = "assemble"
            /\ UNCHANGED result
       ELSE /\ pc' = "done"
            /\ result' = [ok |-> Some(TranslationUnit(<<>>)), err |-> None]
    /\ UNCHANGED <<hash, parsed, modules, mangled, renames, resolved, assembled, output>>

\* lib.rs line 16: the `?` on the result of Module::resolve.
compile_try ==
    /\ pc = "try"
    /\ IF resolved = "Ok"
       THEN /\ pc' = "assemble"
            /\ UNCHANGED result
       ELSE /\ pc' = "done"
            /\ result' = [ok |-> None, err |-> Some(resolved)]
    /\ UNCHANGED <<hash, parsed, modules, mangled, renames, resolved, assembled, output>>

\* lib.rs lines 18-19: module.assemble() and Ok(wgsl).
compile_assemble ==
    /\ pc = "assemble"
    /\ output' = Some(assemble(modules))
    /\ assembled' = assembled + 1
    /\ result' = [ok |-> Some(assemble(modules).unit), err |-> None]
    /\ pc' = "done"
    /\ UNCHANGED <<hash, parsed, modules, mangled, renames, resolved>>

Next ==
    \/ \E r \in DOMAIN modules : ResolveMangle(r)
    \/ ResolveOk
    \/ \E e \in ImportErrors(parsed) : ResolveErr(e)
    \/ compile_try
    \/ compile_assemble

----------------------------------------------------------------------------
(* Inputs: the programs compile() is run on *)

Foo == "foo"
CallFoo == FunctionCall(Foo, <<>>)
Block(stats) == CompoundStatement(stats)

\* The library module of the concrete scenario: it declares foo.
LibFoo == Module(TranslationUnit(<<Function(Foo, <<>>, None, Block(<<>>))>>), <<>>)

\* `import foo from "lib";` in front of the given declarations.
ImportsFoo(decls) ==
    Module(TranslationUnit(decls), << <<"lib", <<ImportItem(Foo, None)>> >> >>)

Program(main, lib) == [r \in {Entry, "lib"} |-> IF r = Entry THEN main ELSE lib]

\* Expression trees of nesting depth at most d.  The two-operand forms take a
\* leaf on one side.
Leaves == {Literal, Type(Foo), CallFoo}

RECURSIVE Exprs(_)
Exprs(d) ==
    IF d = 0 THEN Leaves
    ELSE LET sub == Exprs(d - 1) IN
         sub
         \cup {Parenthesized(e) : e \in sub}
         \cup {NamedComponent(e) : e \in sub}
         \cup {Unary(e) : e \in sub}
         \cup {Indexing(e, l) : e \in sub, l \in Leaves}
         \cup {Indexing(l, e) : e \in sub, l \in Leaves}
         \cup {Binary(e, l) : e \in sub, l \in Leaves}
         \cup {Binary(l, e) : e \in sub, l \in Leaves}
         \cup {FunctionCall(n, <<e>>) : n \in {Foo, "bar"}, e \in sub}

\* An expression at each kind of position mod_visit_exprs reaches directly.
ExprPrograms ==
    {Program(ImportsFoo(<<Declaration("g", None, Some(e))>>), LibFoo) :
        e \in Exprs(MaxExprDepth)}
    \cup
    {Program(ImportsFoo(<<Function("f", <<>>, None, Block(<<Return(Some(e))>>))>>), LibFoo) :
        e \in Exprs(MaxExprDepth)}

\* Statements without sub-statements.
LeafStatements ==
    {Assignment(CallFoo, Literal), Assignment(Literal, CallFoo),
     Increment(CallFoo), Decrement(CallFoo), ConstAssert(CallFoo),
     Return(None), Return(Some(Literal)), Return(Some(CallFoo)), Return(Some(Type(Foo))),
     Break,
     FunctionCallStatement(Foo, <<>>), FunctionCallStatement("bar", <<>>),
     FunctionCallStatement("bar", <<CallFoo>>),
     Declaration("v", None, None),
     Declaration("v", None, Some(CallFoo)),
     Declaration("v", Some(TypeExpression(Foo)), None),
     Declaration("v", Some(TypeExpression(Foo)), Some(CallFoo))}

\* The statement forms that hold sub-statements, around the statement s; a for
\* loop takes only the statements its grammar allows as initializer and update.
Wrap(s) ==
    {Compound(<<s>>),
     If(CallFoo, Block(<<s>>), <<>>, None),
     If(Literal, Block(<<>>), << <<CallFoo, Block(<<s>>)>> >>, None),
     If(Literal, Block(<<>>), <<>>, Some(Block(<<s>>))),
     Switch(CallFoo, <<SwitchClause(<<CaseExpression(CallFoo), CaseDefault>>, Block(<<s>>))>>),
     Loop(Block(<<s>>), None),
     Loop(Block(<<>>), Some(Continuing(Block(<<s>>), Some(CallFoo)))),
     For(None, Some(CallFoo), None, Block(<<s>>)),
     While(CallFoo, Block(<<s>>))}
    \cup (IF s.kind \in {"Declaration", "Assignment", "Increment", "Decrement", "FunctionCall"}
          THEN {For(Some(s), None, None, Block(<<>>))} ELSE {})
    \cup (IF s.kind \in {"Assignment", "Increment", "Decrement", "FunctionCall"}
          THEN {For(None, None, Some(s), Block(<<>>))} ELSE {})

RECURSIVE Statements(_)
Statements(d) ==
    IF d = 0 THEN LeafStatements
    ELSE LET sub == Statements(d - 1) IN sub \cup UNION {Wrap(s) : s \in sub}

\* Declared-type positions of global declarations, and a function whose
\* parameter is itself named foo.
DeclPrograms ==
    {Program(ImportsFoo(<<d>>), LibFoo) :
        d \in {TypeAlias("A", TypeExpression(Foo)),
               Struct("S", <<StructMember("m", TypeExpression(Foo))>>),
               Declaration("g", Some(TypeExpression(Foo)), Some(CallFoo)),
               Function("f", <<FormalParameter("p", TypeExpression(Foo))>>,
                        Some(TypeExpression(Foo)), Block(<<>>))}}
    \cup
    {Program(ImportsFoo(<<Function("f", <<FormalParameter(Foo, TypeExpression("f32"))>>,
                                   None, Block(<<s>>))>>), LibFoo) :
        s \in LeafStatements}

StmtPrograms ==
    {Program(ImportsFoo(<<Function("f", <<>>, None, Block(<<s>>))>>), LibFoo) :
        s \in Statements(MaxStmtDepth)}
    \cup DeclPrograms

\* The (resource, name) pairs the mangler can be asked about in a program.
HashDomain(graph) ==
    UNION {{<<r, n>> : n \in DeclNames(graph[r].source)} : r \in DOMAIN graph \ {Entry}}

InitOn(programs) ==
    /\ pc = "resolve"
    /\ parsed \in programs
    /\ modules = parsed
    /\ hash \in [HashDomain(parsed) -> 0..MaxHash]
    /\ mangled = {}
    /\ renames = {}
    /\ resolved = "pending"
    /\ assembled = 0
    /\ output = None
    /\ result = NoResult

InitExpr == InitOn(ExprPrograms)
InitStmt == InitOn(StmtPrograms)

SpecExpr == InitExpr /\ [][Next]_vars
SpecStmt == InitStmt /\ [][Next]_vars

----------------------------------------------------------------------------
(* Inputs: programs of several modules *)

Fn(n, stats) == Function(n, <<>>, None, Block(stats))
Call(n) == FunctionCall(n, <<>>)

\* lib declares foo; foo may call a helper of lib, or bar imported from util.
LibModules ==
    {LibFoo,
     Module(TranslationUnit(<<Fn(Foo, <<Return(Some(Call("helper")))>>), Fn("helper", <<>>)>>),
            <<>>),
     Module(TranslationUnit(<<Fn(Foo, <<Return(Some(Call("bar")))>>)>>),
            << <<"util", <<ImportItem("bar", None)>> >> >>)}

\* util declares bar, and possibly a foo of its own; it may import foo from lib.
UtilModules ==
    {Module(TranslationUnit(<<Fn("bar", <<>>)>>), <<>>),
     Module(TranslationUnit(<<Fn("bar", <<>>), Fn(Foo, <<>>)>>), <<>>),
     Module(TranslationUnit(<<Fn("bar", <<Return(Some(Call(Foo)))>>)>>),
            << <<"lib", <<ImportItem(Foo, None)>> >> >>)}

LibItems == {<<ImportItem(Foo, None)>>, <<ImportItem(Foo, Some("f"))>>}

UtilItems ==
    {<<ImportItem("bar", None)>>,
     <<ImportItem("bar", Some("foo_0"))>>,
     <<ImportItem("bar", None), ImportItem(Foo, Some("g"))>>}

MainImports ==
    {<< <<"lib", li>> >> : li \in LibItems}
    \cup {<< <<"lib", li>>, <<"util", ui>> >> : li \in LibItems, ui \in UtilItems}
    \cup {<< <<"util", ui>>, <<"lib", li>> >> : li \in LibItems, ui \in UtilItems}

LocalName(item) == IF item.rename # None THEN item.rename[1] ELSE item.name

\* The entry module: main() uses every imported name once, under its local
\* name; the module may declare a function of its own besides.
MainModule(imports, own) ==
    LET pairs == import_items(imports) IN
    Module(TranslationUnit(
               <<Fn("main", [i \in DOMAIN pairs |-> ConstAssert(Call(LocalName(pairs[i].item)))])>>
               \o [i \in DOMAIN own |-> Fn(own[i], <<>>)]),
           imports)

MainModules ==
    {MainModule(imports, own) :
        imports \in MainImports, own \in {<<>>, <<"foo_0">>, <<"helper">>}}

LocalNames(module) ==
    {LocalName(p.item) : p \in Range(import_items(module.imports))}

\* The modules reachable from the entry; a module declares no name twice.
LinkPrograms ==
    {[r \in {Entry, "lib"}
          \cup (IF "util" \in Targets(main) \cup Targets(lib) THEN {"util"} ELSE {})
        |-> CASE r = Entry -> main [] r = "lib" -> lib [] OTHER -> util] :
        main \in {m \in MainModules : LocalNames(m) \cap DeclNames(m.source) = {}},
        lib \in LibModules, util \in UtilModules}

Init == InitOn(LinkPrograms)

Spec == Init /\ [][Next]_vars

----------------------------------------------------------------------------
(* Reading syntax trees: what the properties below talk about.  These follow *)
(* the shape of the syntax alone, not the visitors of mangle.rs.             *)

RECURSIVE Flatten(_)
Flatten(seqs) == IF seqs = <<>> THEN <<>> ELSE Head(seqs) \o Flatten(Tail(seqs))

\* The statements directly inside a statement.
SubStatements(stat) ==
    CASE stat.kind = "Compound" -> stat.statements
      [] stat.kind = "If" ->
           stat.if_clause[2].statements
           \o Flatten([i \in DOMAIN stat.else_if_clauses |->
                          stat.else_if_clauses[i][2].statements])
           \o Flatten([i \in DOMAIN stat.else_clause |-> stat.else_clause[i].statements])
      [] stat.kind = "Switch" ->
           Flatten([i \in DOMAIN stat.clauses |-> stat.clauses[i].body.statements])
      [] stat.kind = "Loop" ->
           stat.body.statements
           \o Flatten([i \in DOMAIN stat.continuing |-> stat.continuing[i].body.statements])
      [] stat.kind = "For" -> stat.initializer \o stat.update \o stat.body.statements
      [] stat.kind = "While" -> stat.body.statements
      [] OTHER -> <<>>

\* The expression positions of a statement itself.
Positions(stat) ==
    CASE stat.kind = "Assignment" -> <<stat.lhs, stat.rhs>>
      [] stat.kind \in {"Increment", "Decrement", "ConstAssert"} -> <<stat.expression>>
      [] stat.kind = "If" ->
           <<stat.if_clause[1]>>
           \o [i \in DOMAIN stat.else_if_clauses |-> stat.else_if_clauses[i][1]]
      [] stat.kind = "Switch" ->
           <<stat.expression>>
           \o Flatten([i \in DOMAIN stat.clauses |->
                 Flatten([j \in DOMAIN stat.clauses[i].case_selectors |->
                    IF stat.clauses[i].case_selectors[j].kind = "Expression"
                    THEN <<stat.clauses[i].case_selectors[j].expression>> ELSE <<>>])])
      [] stat.kind = "Loop" ->
           Flatten([i \in DOMAIN stat.continuing |-> stat.continuing[i].break_if])
      [] stat.kind = "For" -> stat.condition
      [] stat.kind = "While" -> <<stat.condition>>
      [] stat.kind = "Return" -> stat.expression
      [] stat.kind = "FunctionCall" -> stat.arguments
      [] stat.kind = "Declaration" -> stat.initializer
      [] OTHER -> <<>>

\* Every statement at every nesting depth, outermost first.
RECURSIVE AllStatements(_)
AllStatements(stats) ==
    IF stats = <<>> THEN <<>>
    ELSE <<Head(stats)>> \o AllStatements(SubStatements(Head(stats)))
         \o AllStatements(Tail(stats))

\* The expressions at the expression positions of a function body.
BodyPositions(fn) ==
    LET all == AllStatements(fn.body.statements) IN
    Flatten([i \in DOMAIN all |-> Positions(all[i])])

\* The names an expression tree refers to: callees and type expressions (which
\* is how a plain identifier is parsed), outermost first.
RECURSIVE Idents(_)
Idents(e) ==
    CASE e.kind = "Type" -> <<e.name>>
      [] e.kind = "FunctionCall" ->
           <<e.name>> \o Flatten([i \in DOMAIN e.arguments |-> Idents(e.arguments[i])])
      [] e.kind = "Parenthesized" -> Idents(e.expression)
      [] e.kind = "NamedComponent" -> Idents(e.base)
      [] e.kind = "Indexing" -> Idents(e.base) \o Idents(e.index)
      [] e.kind = "Unary" -> Idents(e.operand)
      [] e.kind = "Binary" -> Idents(e.left) \o Idents(e.right)
      [] OTHER -> <<>>

\* Only the value references among them.
RECURSIVE ValueRefs(_)
ValueRefs(e) ==
    CASE e.kind = "Type" -> <<e.name>>
      [] e.kind = "FunctionCall" ->
           Flatten([i \in DOMAIN e.arguments |-> ValueRefs(e.arguments[i])])
      [] e.kind = "Parenthesized" -> ValueRefs(e.expression)
      [] e.kind = "NamedComponent" -> ValueRefs(e.base)
      [] e.kind = "Indexing" -> ValueRefs(e.base) \o ValueRefs(e.index)
      [] e.kind = "Unary" -> ValueRefs(e.operand)
      [] e.kind = "Binary" -> ValueRefs(e.left) \o ValueRefs(e.right)
      [] OTHER -> <<>>

\* The callees of the function-call statements of a body, at every depth.
CallStatements(fn) ==
    LET all == AllStatements(fn.body.statements) IN
    Flatten([i \in DOMAIN all |->
                IF all[i].kind = "FunctionCall" THEN <<all[i].name>> ELSE <<>>])

\* Every name a declaration refers to in its initializer or body.
DeclIdents(d) ==
    CASE d.kind = "Declaration" ->
           Flatten([i \in DOMAIN d.initializer |-> Idents(d.initializer[i])])
      [] d.kind = "Function" ->
           LET all == AllStatements(d.body.statements) IN
           Flatten([i \in DOMAIN all |->
              (IF all[i].kind = "FunctionCall" THEN <<all[i].name>> ELSE <<>>)
              \o Flatten([j \in DOMAIN Positions(all[i]) |-> Idents(Positions(all[i])[j])])])
      [] OTHER -> <<>>

\* The type names at the declared-type positions of a declaration: the
\* declaration's own, and those of the local declarations in a function body.
DeclaredTypes(d) ==
    CASE d.kind = "Declaration" -> [i \in DOMAIN d.typ |-> d.typ[i].name]
      [] d.kind = "TypeAlias" -> <<d.typ.name>>
      [] d.kind = "Struct" -> [i \in DOMAIN d.members |-> d.members[i].typ.name]
      [] d.kind = "Function" ->
           [i \in DOMAIN d.parameters |-> d.parameters[i].typ.name]
           \o [i \in DOMAIN d.return_type |-> d.return_type[i].name]
           \o (LET all == AllStatements(d.body.statements) IN
               Flatten([i \in DOMAIN all |->
                  IF all[i].kind = "Declaration"
                  THEN [j \in DOMAIN all[i].typ |-> all[i].typ[j].name] ELSE <<>>]))
      [] OTHER -> <<>>

Decls(graph, r) == graph[r].source.global_declarations

Functions(graph, r) == {i \in DOMAIN Decls(graph, r) : Decls(graph, r)[i].kind = "Function"}

Compiled == pc = "done" /\ result.ok # None

OutDecls == output[1].unit.global_declarations

\* The identifier under which the output holds declaration n of module r.
EmittedName(r, n) ==
    OutDecls[CHOOSE i \in DOMAIN OutDecls :
                output[1].origin[i] = [resource |-> r, name |-> n]].name

EmittedNames == {OutDecls[i].name : i \in DOMAIN OutDecls}

----------------------------------------------------------------------------
(* Properties *)

MangledFoo == mangle("lib", Foo)

\* C1: once Module::mangle has run on the entry module, which imports foo from
\* lib without alias, every function-call statement `foo(...);` of every
\* function body, at every statement nesting depth, has the callee
\* mangle(lib, "foo"); no call statement named plain foo remains.
C1_CallStatementsMangled ==
    Entry \in mangled =>
        \A i \in Functions(parsed, Entry) :
            LET before == CallStatements(Decls(parsed, Entry)[i])
                after == CallStatements(Decls(modules, Entry)[i])
            IN \A k \in DOMAIN before : before[k] = Foo => after[k] = MangledFoo

\* C2: once Module::mangle has run on the entry module, no callee and no type
\* expression named foo remains anywhere in the tree of an expression at a
\* visited position (a global initializer, an expression position of a body).
C2_NoOldNameAtAnyDepth ==
    Entry \in mangled =>
        \A i \in DOMAIN Decls(modules, Entry) :
            LET d == Decls(modules, Entry)[i]
                exprs == IF d.kind = "Declaration" THEN d.initializer
                         ELSE IF d.kind = "Function" THEN BodyPositions(d) ELSE <<>>
            IN \A k \in DOMAIN exprs : Foo \notin Range(Idents(exprs[k]))

\* C3: once Module::mangle has run on the entry module, every expression
\* position of every statement of a function body, at every statement nesting
\* depth, that held a call of foo as its whole expression holds a call of
\* mangle(lib, "foo").
C3_CallAtStatementPositionMangled ==
    Entry \in mangled =>
        \A i \in Functions(parsed, Entry) :
            LET before == BodyPositions(Decls(parsed, Entry)[i])
                after == BodyPositions(Decls(modules, Entry)[i])
            IN \A k \in DOMAIN before :
                  (before[k].kind = "FunctionCall" /\ before[k].name = Foo)
                  => (after[k].kind = "FunctionCall" /\ after[k].name = MangledFoo)

\* C3 witness: a for-loop inside the continuing block of a loop; the call of
\* foo in the for condition and the one in the break-if are both rewritten.
C3_Witness ==
    /\ Entry \in mangled
    /\ \E i \in Functions(modules, Entry) :
          LET was == Decls(parsed, Entry)[i].body.statements
              now == Decls(modules, Entry)[i].body.statements
          IN /\ Len(now) = 1
             /\ now[1].kind = "Loop"
             /\ now[1].continuing # None
             /\ was[1].continuing[1].break_if = Some(CallFoo)
             /\ now[1].continuing[1].break_if = Some(Call(MangledFoo))
             /\ Len(now[1].continuing[1].body.statements) = 1
             /\ now[1].continuing[1].body.statements[1].kind = "For"
             /\ was[1].continuing[1].body.statements[1].condition = Some(CallFoo)
             /\ now[1].continuing[1].body.statements[1].condition = Some(Call(MangledFoo))

\* C4: once Module::mangle has run on the entry module, in a function that
\* declares a parameter named foo every value reference `foo` of the body,
\* which refers to the parameter, still carries the name foo.
C4_LocalBindingUntouched ==
    Entry \in mangled =>
        \A i \in Functions(parsed, Entry) :
            LET f == Decls(parsed, Entry)[i]
                before == BodyPositions(f)
                after == BodyPositions(Decls(modules, Entry)[i])
            IN (\E j \in DOMAIN f.parameters : f.parameters[j].name = Foo)
               => \A k \in DOMAIN before : ValueRefs(after[k]) = ValueRefs(before[k])

\* C5: once Module::mangle has run on the entry module, no declared-type
\* position (global value declaration, type alias, struct member, function
\* parameter, return type, local declaration) names the type foo.
C5_NoOldDeclaredType ==
    Entry \in mangled =>
        \A i \in DOMAIN Decls(modules, Entry) :
            Foo \notin Range(DeclaredTypes(Decls(modules, Entry)[i]))

\* C6: after a successful compile, for every import item (n, optional alias)
\* of every module M targeting resource R, Module::mangle called
\* replace_imported_ident with the item's local name and with the identifier
\* under which the output holds declaration n of R; every identifier it put at
\* a use site is the name of an emitted declaration.
C6_NameAgreement ==
    Compiled =>
        /\ \A r \in DOMAIN parsed :
              \A p \in Range(import_items(parsed[r].imports)) :
                 \E c \in renames :
                    /\ c.module = r /\ c.resource = p.resource /\ c.name = p.item.name
                    /\ c.old_ident = LocalName(p.item)
        /\ \A c \in renames : c.new_ident = EmittedName(c.resource, c.name)
        /\ \A r \in DOMAIN parsed :
              \A i \in DOMAIN Decls(parsed, r) :
                 LET before == DeclIdents(Decls(parsed, r)[i])
                     after == DeclIdents(Decls(modules, r)[i])
                 IN \A k \in DOMAIN before :
                       after[k] # before[k] => after[k] \in EmittedNames

\* C6 witness: a successful compile in which two modules import, one of them
\* under an alias, and a use site of the alias was rewritten.
C6_Witness ==
    /\ Compiled
    /\ \E c, d \in renames : c.module # d.module /\ c.old_ident # c.name
    /\ \E i \in DOMAIN Decls(parsed, Entry) :
          \E k \in DOMAIN DeclIdents(Decls(parsed, Entry)[i]) :
             /\ DeclIdents(Decls(parsed, Entry)[i])[k] = "f"
             /\ DeclIdents(Decls(modules, Entry)[i])[k] = EmittedName("lib", Foo)

\* C7: after a successful compile no two top-level declarations of the output
\* share an identifier.
C7_GlobalUniqueness ==
    Compiled =>
        \A i, j \in DOMAIN OutDecls : i # j => OutDecls[i].name # OutDecls[j].name

\* C8: when Module::resolve fails with e, assemble is never called, no unit is
\* returned and compile returns Err(e); compile returns Ok(unit) only when
\* resolution succeeded with every module mangled, and unit is what the one
\* call of assemble built.
C8_FailFast ==
    /\ resolved \notin {"pending", "Ok"} =>
          /\ assembled = 0
          /\ output = None
          /\ result.ok = None
          /\ pc = "done" => result.err = Some(resolved)
    /\ result.ok # None =>
          /\ resolved = "Ok"
          /\ result.err = None
          /\ mangled = DOMAIN parsed
          /\ assembled = 1
          /\ output # None
          /\ result.ok = Some(output[1].unit)
    /\ pc = "done" => (result.ok # None \/ result.err # None)

\* C8 witness: compile has returned the error Module::resolve ended with.
C8_Witness ==
    pc = "done" /\ resolved = "UnresolvedImport" /\ result.err = Some("UnresolvedImport")

\* C9: after a successful compile, every reference inside a non-entry module
\* to one of that module's own top-level declarations names the identifier
\* under which the output holds that declaration.
C9_NoDanglingOwnReference ==
    Compiled =>
        \A i \in DOMAIN OutDecls :
            LET r == output[1].origin[i].resource
                src == CHOOSE d \in Range(Decls(parsed, r)) : d.name = output[1].origin[i].name
                before == DeclIdents(src)
                after == DeclIdents(OutDecls[i])
            IN r # Entry =>
                 \A k \in DOMAIN before :
                    before[k] \in DeclNames(parsed[r].source) \ LocalNames(parsed[r])
                    => after[k] = EmittedName(r, before[k])

\* C10: once Module::mangle has run on a module, every use site that carried
\* the local name of an import item carries the mangled name of that item,
\* whatever the order of the items.
C10_NoChainedRename ==
    \A r \in mangled :
        \A p \in Range(import_items(parsed[r].imports)) :
            \A i \in DOMAIN Decls(parsed, r) :
                LET before == DeclIdents(Decls(parsed, r)[i])
                    after == DeclIdents(Decls(modules, r)[i])
                IN \A k \in DOMAIN before :
                      before[k] = LocalName(p.item)
                      => after[k] = mangle(p.resource, p.item.name)

====
